---- MODULE Spec2Model ----
(***************************************************************************)
(* Model of the citation-checking backend: the FAISS Retriever             *)
(* (backend/retriever.py), the evidence adjudicator (backend/nli.py), the  *)
(* per-row worker and the index registry (backend/main.py) and the claim   *)
(* segmenter (frontend/ui.py).                                             *)
(*                                                                         *)
(* Conventions                                                             *)
(*  - similarity scores are cosine similarities scaled by 100 (0.20 = 20); *)
(*  - classifier confidences are probabilities scaled by 100;              *)
(*  - sequences are 1-based, so FAISS row i (0-based) is position i+1 and  *)
(*    the FAISS padding id -1 is position 0;                               *)
(*  - Python None is the string "None", except for max_sentences where it  *)
(*    is NoCap.                                                            *)
(***************************************************************************)
EXTENDS Integers, Sequences, FiniteSets, TLC

VARIABLES
    embedTab,     \* the embedding service: model alias -> text -> vector
    r,            \* one Retriever object (SpecRetriever)
    builtFrom,    \* history: the chunk list handed to the last r.build
    faissFile,    \* the index file written by faiss.write_index for r
    retrievers,   \* backend/main.py: the index registry
    results,      \* backend/main.py: the ResultTree
    output,       \* output.json, the persisted snapshot
    ret,          \* outcome of the last call (return value or exception)
    pc            \* the handler in flight and its position, when steps are split

vars == <<embedTab, r, builtFrom, faissFile, retrievers, results, output, ret, pc>>

None == "None"

Min(a, b) == IF a <= b THEN a ELSE b

Range(s) == {s[i] : i \in 1..Len(s)}

\* dict.get(key, default)
Get(d, key, default) == IF key \in DOMAIN d THEN d[key] ELSE default

\* Python slice s[:n] for n >= 0
Head_(s, n) == SubSeq(s, 1, Min(n, Len(s)))

(***************************************************************************)
(* Bounds of the model                                                     *)
(***************************************************************************)
MaxChunks == 2      \* longest chunk list handed to Retriever.build
MaxK == 2           \* largest k asked of Retriever.query in SpecRetriever

(***************************************************************************)
(* Embedding vectors.  A vector is either the zero vector or one of six    *)
(* unit directions at multiples of 60 degrees; faiss.normalize_L2 leaves   *)
(* the zero vector alone and scales every other vector to unit length, so  *)
(* the inner product of two normalised vectors is the cosine of the angle  *)
(* between them (CosTab, scaled by 100) or 0 when one of them is zero.     *)
(***************************************************************************)
ZeroVec == 0
CosTab == <<100, 50, -50, -100, -50, 50>>
Vecs == 0..Len(CosTab)

InnerProduct(a, b) ==
    IF a = ZeroVec \/ b = ZeroVec THEN 0
    ELSE CosTab[((a - b) % Len(CosTab)) + 1]

\* the distance FAISS reports for a result slot it could not fill (-FLT_MAX)
NegInf == -1000000

Models == {"alias-embeddings", "other-embeddings"}
DefaultEmbedModel == "alias-embeddings"

Texts == {"t0", "t1"}

\* the embedding services considered: what each model returns for each text
EmbedTable(a0, a1, o0, o1) ==
    [m \in Models |->
        IF m = DefaultEmbedModel THEN [t \in Texts |-> IF t = "t0" THEN a0 ELSE a1]
        ELSE [t \in Texts |-> IF t = "t0" THEN o0 ELSE o1]]

EmbedTables ==
    { EmbedTable(1, 2, 1, 2),      \* both models agree, the texts differ
      EmbedTable(1, 2, 2, 4),      \* the models disagree
      EmbedTable(1, 1, 1, 2),      \* two texts with one embedding
      EmbedTable(0, 1, 1, 0) }     \* a text embedded as the zero vector

(***************************************************************************)
(* Chunks: {text, meta}.  meta is a dict; a key it lacks is absent from    *)
(* the record.                                                             *)
(***************************************************************************)
Chunk(text, meta) == [text |-> text, meta |-> meta]

ChunkPool ==
    { Chunk("t0", [type |-> "sentence", id |-> "1"]),
      Chunk("t1", [type |-> "paragraph", id |-> "2"]) }

RECURSIVE SeqsUpTo(_, _)
SeqsUpTo(S, n) ==
    IF n = 0 THEN {<<>>}
    ELSE LET shorter == SeqsUpTo(S, n - 1)
         IN  shorter \cup {Append(s, x) : s \in {t \in shorter : Len(t) = n - 1}, x \in S}

ChunkLists == SeqsUpTo(ChunkPool, MaxChunks)

(***************************************************************************)
(* bl_client.embed_documents: the texts are sent in batches of batch_size; *)
(* a failing batch raises; the vectors come back one per text, in order.   *)
(* providerOk is the outcome of the HTTP calls (no call is made for an     *)
(* empty list, so an empty list cannot fail).                              *)
(***************************************************************************)
batch_size == 50

NBatches(n) == (n + batch_size - 1) \div batch_size

embed_documents(texts, model, providerOk) ==
    IF NBatches(Len(texts)) > 0 /\ ~providerOk
    THEN [raised |-> TRUE, vecs |-> <<>>]
    ELSE [raised |-> FALSE, vecs |-> [i \in 1..Len(texts) |-> embedTab[model][texts[i]]]]

\* utils.embed: always the alias-embeddings model and the environment's credentials
embed(texts, providerOk) == embed_documents(texts, DefaultEmbedModel, providerOk)

(***************************************************************************)
(* Retriever                                                               *)
(***************************************************************************)
NoCap == -1                 \* max_sentences = None
NoIndex == [present |-> FALSE, xb |-> <<>>]

\* Retriever.__init__
NewRetriever(max_sentences, min_score, embed_model) ==
    [index |-> NoIndex, chunks |-> <<>>, max_sentences |-> max_sentences,
     min_score |-> min_score, embed_model |-> embed_model]

\* chunks[: self.max_sentences] if self.max_sentences else chunks
FilteredCapIsOffByOne(chunks, max_sentences) ==
    IF max_sentences # NoCap /\ max_sentences # 0
    THEN Head_(chunks, max_sentences + 1) ELSE chunks

Filtered(chunks, max_sentences) ==
    IF max_sentences # NoCap /\ max_sentences # 0
    THEN Head_(chunks, max_sentences) ELSE chunks

\* Retriever.build keeping the chunk list before it embeds
BuildResultKeepsChunksFirst(self, chunks, providerOk) ==
    LET filtered == Filtered(chunks, self.max_sentences)
        texts    == [i \in 1..Len(filtered) |-> filtered[i].text]
        emb      == embed_documents(texts, self.embed_model, providerOk)
        kept     == [self EXCEPT !.chunks = filtered]
    IN  IF emb.raised \/ Len(emb.vecs) = 0
        THEN [raised |-> TRUE, self |-> kept, embedded |-> texts, file |-> NoIndex]
        ELSE LET idx == [present |-> TRUE, xb |-> emb.vecs]
             IN  [raised |-> FALSE, self |-> [kept EXCEPT !.index = idx],
                  embedded |-> texts, file |-> idx]

\* Retriever.build: the new object state, what was embedded, and whether it raised.
\* embeddings.shape[1] raises for an empty embedding list, before anything is kept.
BuildResult(self, chunks, providerOk) ==
    LET filtered == Filtered(chunks, self.max_sentences)
        texts    == [i \in 1..Len(filtered) |-> filtered[i].text]
        emb      == embed_documents(texts, self.embed_model, providerOk)
    IN  IF emb.raised
        THEN [raised |-> TRUE, self |-> self, embedded |-> texts, file |-> NoIndex]
        ELSE IF Len(emb.vecs) = 0
        THEN [raised |-> TRUE, self |-> self, embedded |-> texts, file |-> NoIndex]
        ELSE LET idx == [present |-> TRUE, xb |-> emb.vecs]
             IN  [raised |-> FALSE,
                  self |-> [self EXCEPT !.index = idx, !.chunks = filtered],
                  embedded |-> texts, file |-> idx]

\* Retriever.load: faiss.read_index raises when the index file does not exist
LoadResult(self, file) ==
    IF ~file.present THEN [raised |-> TRUE, self |-> self]
    ELSE [raised |-> FALSE, self |-> [self EXCEPT !.index = file]]

(***************************************************************************)
(* IndexFlatIP.search: the k best rows by inner product, best first, rows  *)
(* of equal score in row order; slots beyond ntotal are padded with        *)
(* (-FLT_MAX, -1).                                                         *)
(***************************************************************************)
Better(xb, q, i, j) ==
    \/ InnerProduct(xb[i], q) > InnerProduct(xb[j], q)
    \/ InnerProduct(xb[i], q) = InnerProduct(xb[j], q) /\ i < j

RankOf(xb, q, i) == Cardinality({j \in 1..Len(xb) : Better(xb, q, j, i)}) + 1

Search(xb, q, k) ==
    [p \in 1..k |->
        IF p <= Len(xb)
        THEN LET i == CHOOSE i \in 1..Len(xb) : RankOf(xb, q, i) = p
             IN  [dist |-> InnerProduct(xb[i], q), idx |-> i]
        ELSE [dist |-> NegInf, idx |-> 0]]

\* if dist < self.min_score: continue
KeepHitNoFloor(dist, min_score) == TRUE

KeepHit(dist, min_score) == ~(dist < min_score)

\* self.chunks[idx] with Python's indexing: -1 is the last chunk, past the end raises
ChunkAtOk(chunks, idx) == IF idx = 0 THEN Len(chunks) > 0 ELSE idx <= Len(chunks)

ChunkAt(chunks, idx) == IF idx = 0 THEN chunks[Len(chunks)] ELSE chunks[idx]

\* the loop over zip(distances[0], indices[0]) of query / one row of query_many
RECURSIVE HitsOf(_, _, _, _)
HitsOf(self, found, p, acc) ==
    IF p > Len(found) THEN [raised |-> FALSE, value |-> acc]
    ELSE IF ~KeepHit(found[p].dist, self.min_score)
    THEN HitsOf(self, found, p + 1, acc)
    ELSE IF ~ChunkAtOk(self.chunks, found[p].idx)
    THEN [raised |-> TRUE, value |-> <<>>]
    ELSE LET chunk == ChunkAt(self.chunks, found[p].idx)
         IN  HitsOf(self, found, p + 1,
                    Append(acc, [score |-> found[p].dist, text |-> chunk.text,
                                 meta |-> chunk.meta]))

\* if self.index is None or not self.chunks: raise ValueError
UnbuiltNever(self) == FALSE

Unbuilt(self) == ~self.index.present \/ Len(self.chunks) = 0

\* Retriever.query
QueryResult(self, text, k, providerOk) ==
    IF Unbuilt(self)
    THEN [raised |-> TRUE, why |-> "not built", value |-> <<>>, vecs |-> <<>>]
    ELSE LET emb == embed(<<text>>, providerOk)
         IN  IF emb.raised
             THEN [raised |-> TRUE, why |-> "provider", value |-> <<>>, vecs |-> <<>>]
             ELSE LET hits == HitsOf(self, Search(self.index.xb, emb.vecs[1], k), 1, <<>>)
                  IN  [raised |-> hits.raised, why |-> "index", value |-> hits.value,
                       vecs |-> emb.vecs]

\* Retriever.query_many
RECURSIVE RowsOf(_, _, _, _, _)
RowsOf(self, vecs, k, p, acc) ==
    IF p > Len(vecs) THEN [raised |-> FALSE, value |-> acc]
    ELSE LET hits == HitsOf(self, Search(self.index.xb, vecs[p], k), 1, <<>>)
         IN  IF hits.raised THEN [raised |-> TRUE, value |-> <<>>]
             ELSE RowsOf(self, vecs, k, p + 1, Append(acc, hits.value))

QueryManyResult(self, texts, k, providerOk) ==
    IF Unbuilt(self)
    THEN [raised |-> TRUE, why |-> "not built", value |-> <<>>, vecs |-> <<>>]
    ELSE LET emb == embed(texts, providerOk)
         IN  IF emb.raised
             THEN [raised |-> TRUE, why |-> "provider", value |-> <<>>, vecs |-> <<>>]
             ELSE LET rows == RowsOf(self, emb.vecs, k, 1, <<>>)
                  IN  [raised |-> rows.raised, why |-> "index", value |-> rows.value,
                       vecs |-> emb.vecs]

(***************************************************************************)
(* Strings whose characters matter are sequences of one-character strings. *)
(***************************************************************************)
UpperToLower ==
    [A |-> "a", C |-> "c", D |-> "d", E |-> "e", I |-> "i", L |-> "l", M |-> "m",
     N |-> "n", O |-> "o", R |-> "r", T |-> "t", U |-> "u"]

\* str.lower()
Lower(str) ==
    [i \in 1..Len(str) |->
        IF str[i] \in DOMAIN UpperToLower THEN UpperToLower[str[i]] ELSE str[i]]

\* sub in str
Contains(sub, str) ==
    \E i \in 1..(Len(str) - Len(sub) + 1) : SubSeq(str, i, i + Len(sub) - 1) = sub

(***************************************************************************)
(* JSON values and Python objects: [t |-> type, v |-> value].  A dict's    *)
(* value is a function from its keys; a list's value is a sequence.        *)
(***************************************************************************)
JDict(d) == [t |-> "dict", v |-> d]
JList(l) == [t |-> "list", v |-> l]
JStr(x) == [t |-> "str", v |-> x]
JNull == [t |-> "null", v |-> None]
EmptyDict == [k \in {} |-> None]

\* A completion: the provider raised, or it returned `text`, which json.loads
\* either rejects (valid = FALSE) or parses to `value`.
ProviderError == [raised |-> TRUE, text |-> "", valid |-> FALSE, value |-> JNull]
NonJson(text) == [raised |-> FALSE, text |-> text, valid |-> FALSE, value |-> JNull]
Json(text, value) == [raised |-> FALSE, text |-> text, valid |-> TRUE, value |-> value]

(***************************************************************************)
(* backend/nli.py: assess                                                  *)
(***************************************************************************)
THRESHOLD == 0

_LOCAL_NLI_PATHS == {"deberta-base", "deberta-large"}

\* max(preds, key=lambda p: p["score"]): the first prediction of maximal score
BestPred(preds) ==
    LET i == CHOOSE i \in 1..Len(preds) :
                 /\ \A j \in 1..Len(preds) : preds[j].score <= preds[i].score
                 /\ \A j \in 1..(i - 1) : preds[j].score < preds[i].score
    IN  preds[i]

\* "yes" if "entail" in label else ("no" if "contradict" in label else "circumstantial")
AssessmentOfLabelPartial(label) ==
    IF Contains(<<"e", "n", "t", "a", "i", "l">>, Lower(label)) THEN "yes"
    ELSE IF Contains(<<"c", "o", "n", "t", "r", "a", "d", "i", "c", "t">>, Lower(label))
    THEN "no" ELSE "partial"

AssessmentOfLabel(label) ==
    IF Contains(<<"e", "n", "t", "a", "i", "l">>, Lower(label)) THEN "yes"
    ELSE IF Contains(<<"c", "o", "n", "t", "r", "a", "d", "i", "c", "t">>, Lower(label))
    THEN "no" ELSE "circumstantial"

\* if best["score"] < THRESHOLD: continue
BelowFloor(score) == score < THRESHOLD

\* zip(passages, metadatas)
ZipLen(a, b) == Min(Len(a), Len(b))

\* the local branch: classifier is the pipeline, a function from passage text to
\* its list of {label, score} predictions for this claim
RECURSIVE LocalEvidence(_, _, _, _, _)
LocalEvidence(passages, metadatas, classifier, p, acc) ==
    IF p > ZipLen(passages, metadatas) THEN acc
    ELSE LET best == BestPred(classifier[passages[p]])
         IN  IF BelowFloor(best.score)
             THEN LocalEvidence(passages, metadatas, classifier, p + 1, acc)
             ELSE LocalEvidence(passages, metadatas, classifier, p + 1,
                    Append(acc,
                      JDict([quote |-> passages[p],
                             location |-> Get(metadatas[p], "chunk_id", None),
                             assessment |-> AssessmentOfLabel(best.label),
                             chunk_id |-> Get(metadatas[p], "chunk_id", None),
                             type |-> Get(metadatas[p], "type", None),
                             score |-> best.score])))

\* the remote branch after the completion returned: json.loads(raw) and
\* result.get("evidence", []), any exception giving []
ParseEvidenceUnguarded(raw) ==
    IF ~raw.valid THEN [raised |-> TRUE, value |-> JList(<<>>)]
    ELSE IF raw.value.t # "dict" THEN [raised |-> TRUE, value |-> JList(<<>>)]
    ELSE [raised |-> FALSE, value |-> Get(raw.value.v, "evidence", JList(<<>>))]

ParseEvidence(raw) ==
    IF ~raw.valid THEN [raised |-> FALSE, value |-> JList(<<>>)]
    ELSE IF raw.value.t # "dict" THEN [raised |-> FALSE, value |-> JList(<<>>)]
    ELSE [raised |-> FALSE, value |-> Get(raw.value.v, "evidence", JList(<<>>))]

\* assess(claim, passages, metadatas, nli_model, llm_model): classifier and raw are
\* what the local pipeline and the completion service answer
assess(claim, passages, metadatas, nli_model, classifier, raw) ==
    IF nli_model \in _LOCAL_NLI_PATHS
    THEN [raised |-> FALSE, strategy |-> "local",
          value |-> JList(LocalEvidence(passages, metadatas, classifier, 1, <<>>))]
    ELSE IF raw.raised
    THEN [raised |-> TRUE, strategy |-> "remote", value |-> JList(<<>>)]
    ELSE LET parsed == ParseEvidence(raw)
         IN  [raised |-> parsed.raised, strategy |-> "remote", value |-> parsed.value]

(***************************************************************************)
(* backend/utils.py: call_llm_justification.  The completion's exception   *)
(* is not caught; any parse failure or non-dict JSON gives the raw text as *)
(* the rationale.                                                          *)
(***************************************************************************)
call_llm_justification(raw) ==
    IF raw.raised THEN [raised |-> TRUE, value |-> EmptyDict]
    ELSE IF raw.valid /\ raw.value.t = "dict"
    THEN [raised |-> FALSE, value |-> raw.value.v]
    ELSE [raised |-> FALSE,
          value |-> [rationale |-> JStr(raw.text), best_id |-> JNull]]

(***************************************************************************)
(* The data folders: a citing table (CSV) and the TEI files beside it.     *)
(***************************************************************************)
\* the number of rows of the table of folder "fl"
LongTableRows == 11

CsvRow(author, year, sentence, tei_file, doi) ==
    ("Cited Author" :> author) @@ ("Cited Year" :> year) @@
    ("tei_sentence" :> sentence) @@ ("TEI File" :> tei_file) @@ ("Cited DOI" :> doi)

TeiFile(path, sentences) == [path |-> path, sentences |-> sentences]

Folders == {"fa", "fb", "empty"}

\* "fc" is not among Folders: its table has no Cited DOI column (SpecSchema)
HasCsv(folder) == folder # "empty"

FolderCsv(folder) ==
    IF folder = "fa"
    THEN << CsvRow("Smith", 2010, "t0", "A-DOI1", "doi-smith"),
            CsvRow("Smith", 2010, "t1", "A-DOI2", "doi-smith"),
            CsvRow("Jones", 2012, "t1", "B", "doi-jones") >>
    ELSE IF folder = "fb"
    THEN << CsvRow("Lee", 2015, "t0", "C", "doi-lee") >>
    ELSE IF folder = "fc"
    THEN << [c \in {"Cited Author", "Cited Year", "tei_sentence", "TEI File"} |->
                CsvRow("Smith", 2010, "t0", "A-DOI1", "doi-smith")[c]] >>
    ELSE IF folder = "fl"
    THEN [i \in 1..LongTableRows |-> CsvRow("Smith", 2010, "t0", "A-DOI1", "doi-smith")]
    ELSE <<>>

FolderTei(folder) ==
    IF folder = "fa" THEN << TeiFile("fa/Smith.xml", <<"t0", "t1">>) >>
    ELSE IF folder = "fc" THEN << TeiFile("fc/Smith.xml", <<"t0", "t1">>) >>
    ELSE IF folder = "fl" THEN << TeiFile("fl/Smith.xml", <<"t0", "t1">>) >>
    ELSE IF folder = "fb"
    THEN << TeiFile("fb/Lee.xml", <<"t0", "t1", "t0", "t0">>),
            TeiFile("fb/Kim.xml", <<"t0", "t0", "t0">>) >>
    ELSE <<>>

\* citing_id.split("-DOI"), for the TEI File values of the tables above
SplitDOI ==
    ("A-DOI1" :> <<"A", "1">>) @@ ("A-DOI2" :> <<"A", "2">>) @@
    ("B" :> <<"B">>) @@ ("C" :> <<"C">>)

\* parser.tei_to_chunks: one chunk per sentence, meta = {source, type}
tei_to_chunks(tei) ==
    [i \in 1..Len(tei.sentences) |->
        Chunk(tei.sentences[i], [source |-> tei.path, type |-> "sentence"])]

RECURSIVE Flatten(_)
Flatten(seqs) == IF seqs = <<>> THEN <<>> ELSE Head(seqs) \o Flatten(Tail(seqs))

\* df[c] / row[c] raises KeyError when the table has no column c
HasColumns(csv, columns) == \A i \in 1..Len(csv) : columns \subseteq DOMAIN csv[i]

\* the columns parser.tei_and_csv_to_documents reads
ParserColumns == {"Cited Year", "tei_sentence", "Cited Author", "TEI File"}

\* parser.tei_and_csv_to_documents: the TEI chunks, then one document per table row
tei_and_csv_to_documents(folder) ==
    LET tei_docs == Flatten([i \in 1..Len(FolderTei(folder)) |->
                                 tei_to_chunks(FolderTei(folder)[i])])
        csv == FolderCsv(folder)
        citing_docs ==
            [i \in 1..Len(csv) |->
                [text |-> csv[i]["tei_sentence"], author |-> csv[i]["Cited Author"],
                 year |-> csv[i]["Cited Year"], tei_file |-> csv[i]["TEI File"],
                 meta |-> [id |-> csv[i]["TEI File"]]]]
    IN  tei_docs \o citing_docs

\* main._paper_key and the key of retriever.build_all
_paper_key(author, year) == author \o "-" \o ToString(year)

(***************************************************************************)
(* retriever.build_all.  failAt is the number of the build whose embedding *)
(* call fails (0: none does).                                              *)
(***************************************************************************)
RECURSIVE BuildPerPaper(_, _, _, _, _, _)
BuildPerPaper(docs, cfg, failAt, n, indexes, files) ==
    IF docs = <<>> THEN [raised |-> FALSE, n |-> n, indexes |-> indexes, files |-> files]
    ELSE IF "author" \notin DOMAIN Head(docs) \/ "year" \notin DOMAIN Head(docs)
    THEN BuildPerPaper(Tail(docs), cfg, failAt, n, indexes, files)
    ELSE LET Built(key, b) ==
                 IF b.raised
                 THEN [raised |-> TRUE, n |-> n + 1, indexes |-> indexes,
                       files |-> files]
                 ELSE BuildPerPaper(Tail(docs), cfg, failAt, n + 1,
                                    (key :> b.self) @@ indexes,
                                    ((cfg.folder \o "/" \o key) :> b.file) @@ files)
         IN  Built(_paper_key(Head(docs).author, Head(docs).year),
                   BuildResult(NewRetriever(cfg.max_sentences, cfg.min_score,
                                            cfg.embed_model),
                               <<Head(docs)>>, failAt # n + 1))

build_all(cfg, failAt, files) ==
    LET DefaultBuilt(per, b) ==
            IF b.raised
            THEN [raised |-> TRUE, indexes |-> EmptyDict, files |-> per.files]
            ELSE [raised |-> FALSE, indexes |-> ("default" :> b.self) @@ per.indexes,
                  files |-> ((cfg.folder \o "/default") :> b.file) @@ per.files]
        PerPaperBuilt(docs, per) ==
            IF per.raised
            THEN [raised |-> TRUE, indexes |-> EmptyDict, files |-> per.files]
            ELSE DefaultBuilt(per,
                     BuildResult(NewRetriever(cfg.max_sentences, cfg.min_score,
                                              cfg.embed_model),
                                 SelectSeq(docs, LAMBDA d :
                                               Get(d.meta, "type", None) = "sentence"),
                                 failAt # per.n + 1))
        Loaded(docs) ==
            PerPaperBuilt(docs, BuildPerPaper(docs, cfg, failAt, 0, EmptyDict, files))
    IN  IF ~HasCsv(cfg.folder) \/ ~HasColumns(FolderCsv(cfg.folder), ParserColumns)
        THEN [raised |-> TRUE, indexes |-> EmptyDict, files |-> files]
        ELSE Loaded(tei_and_csv_to_documents(cfg.folder))

(***************************************************************************)
(* backend/main.py: _process_sentence                                      *)
(***************************************************************************)
\* [c["text"] for c in chosen], [c["meta"] for c in chosen]
PassagesOf(chunks) == [i \in 1..Len(chunks) |-> chunks[i].text]
MetadatasOf(chunks) == [i \in 1..Len(chunks) |-> chunks[i].meta]

K_FETCH == 12       \* r.query(claim, k=12)
N_KEEP == 6         \* up to 6 passages go to adjudication

\* [c for c in candidates if c["meta"].get("type") == "sentence"]
SentenceChunks(candidates) ==
    SelectSeq(candidates, LAMBDA c : Get(c.meta, "type", None) = "sentence")

\* chosen: sentence_chunks[:6], or sentence_chunks + candidates[: 6 - len(sentence_chunks)]
Chosen(candidates) ==
    LET sentence_chunks == SentenceChunks(candidates)
    IN  IF Len(sentence_chunks) >= N_KEEP
        THEN Head_(sentence_chunks, N_KEEP)
        ELSE sentence_chunks \o Head_(candidates, N_KEEP - Len(sentence_chunks))

\* Python truth value of a JSON value
Truthy(j) ==
    CASE j.t = "null" -> FALSE
      [] j.t = "list" -> Len(j.v) > 0
      [] j.t = "str"  -> j.v # ""
      [] j.t = "dict" -> DOMAIN j.v # {}
      [] OTHER -> TRUE

\* the normalisation of assess's return value into the list evs; iterating a str or
\* a dict yields no dict, which is the same as iterating nothing
EvsOf(ass) ==
    LET evs == IF ass.t = "dict"
               THEN LET e == Get(ass.v, "evidence", JNull)
                    IN  IF Truthy(e) THEN e ELSE JList(<<ass>>)
               ELSE IF ass.t = "list" THEN ass
               ELSE JList(<<>>)
    IN  IF evs.t = "list" THEN evs.v ELSE <<>>

\* the annotation loop: chosen[idx] raises IndexError past the end of chosen
RECURSIVE Annotate(_, _, _, _)
Annotate(evs, chosen, idx, acc) ==
    IF idx > Len(evs) THEN [raised |-> FALSE, value |-> acc]
    ELSE IF evs[idx].t # "dict" THEN Annotate(evs, chosen, idx + 1, acc)
    ELSE IF idx > Len(chosen) THEN [raised |-> TRUE, value |-> acc]
    ELSE Annotate(evs, chosen, idx + 1,
                  Append(acc, ("source_id" :> Get(chosen[idx].meta, "id", "")) @@
                              ("source_type" :> Get(chosen[idx].meta, "type", "")) @@
                              evs[idx].v))

\* [ev["quote"] for ev in evidence if ev["assessment"] in ("yes", "partial")]
RECURSIVE TopPassages(_, _, _)
TopPassages(evidence, i, acc) ==
    IF i > Len(evidence) THEN [raised |-> FALSE, value |-> acc]
    ELSE IF "assessment" \notin DOMAIN evidence[i] THEN [raised |-> TRUE, value |-> acc]
    ELSE IF evidence[i]["assessment"] \in {"yes", "partial"}
    THEN IF "quote" \notin DOMAIN evidence[i] THEN [raised |-> TRUE, value |-> acc]
         ELSE TopPassages(evidence, i + 1, Append(acc, evidence[i]["quote"]))
    ELSE TopPassages(evidence, i + 1, acc)

\* if top_passages:
JustifiesAlways(top_passages) == TRUE

Justifies(top_passages) == top_passages # <<>>

\* chr(97 + i), for i in 0..29: the characters of codes 97 to 126
Letters ==
    << "a", "b", "c", "d", "e", "f", "g", "h", "i", "j", "k", "l", "m",
       "n", "o", "p", "q", "r", "s", "t", "u", "v", "w", "x", "y", "z",
       "{", "|", "}", "~" >>

\* f"{row_id}{chr(97+i)}"
SegmentIdWraps(row_id, i) == ToString(row_id) \o Letters[(i % 26) + 1]

SegmentId(row_id, i) == ToString(row_id) \o Letters[i + 1]

\* One pass of the loop over segments (i counts from 0).  env holds what the
\* providers answer during this pass: embedOk for the query's embedding, classifier
\* and raw for assess, just for the justification completion.
SegmentPass(retr, row_id, i, claim, settings, env) ==
    LET Justified(picked, seg, j) ==
            IF j.raised
            THEN [raised |-> TRUE, why |-> "justification", picked |-> picked]
            ELSE [raised |-> FALSE, why |-> "", picked |-> picked,
                  seg |-> ("best_evidence_id" :> Get(j.value, "best_id", JNull)) @@
                          ("llm_rationale" :> Get(j.value, "rationale", JNull)) @@ seg]
        Recorded(picked, seg, top) ==
            IF top.raised
            THEN [raised |-> TRUE, why |-> "evidence key", picked |-> picked]
            ELSE IF ~Justifies(top.value)
            THEN [raised |-> FALSE, why |-> "", picked |-> picked, seg |-> seg]
            ELSE Justified([picked EXCEPT !.justified = TRUE], seg,
                           call_llm_justification(env.just))
        Annotated(picked, ann) ==
            IF ann.raised
            THEN [raised |-> TRUE, why |-> "annotation", picked |-> picked]
            ELSE Recorded(picked,
                          [segment_id |-> SegmentId(row_id, i), claim |-> claim,
                           quoted_evidence |-> ann.value],
                          TopPassages(ann.value, 1, <<>>))
        Assessed(chosen, picked, ass) ==
            IF ass.raised
            THEN [raised |-> TRUE, why |-> "adjudication", picked |-> picked]
            ELSE Annotated(picked, Annotate(EvsOf(ass.value), chosen, 1, <<>>))
        Selected(candidates, chosen) ==
            Assessed(chosen, [candidates |-> candidates, chosen |-> chosen,
                              justified |-> FALSE],
                     assess(claim, PassagesOf(chosen), MetadatasOf(chosen),
                            settings.nli_model, env.classifier, env.raw))
        Queried(q) ==
            IF q.raised THEN [raised |-> TRUE, why |-> "query"]
            ELSE Selected(q.value, Chosen(q.value))
    IN  Queried(QueryResult(retr, claim, K_FETCH, env.embedOk))

RECURSIVE SegmentLoop(_, _, _, _, _, _, _, _)
SegmentLoop(retr, row_id, segments, settings, envs, i, segs, trace) ==
    IF i >= Len(segments)
    THEN [raised |-> FALSE, why |-> "", at |-> 0, segments |-> segs, trace |-> trace]
    ELSE LET Passed(pass) ==
                 IF pass.raised
                 THEN [raised |-> TRUE, why |-> pass.why, at |-> i + 1,
                       segments |-> segs,
                       trace |-> IF pass.why = "query" THEN trace
                                 ELSE Append(trace, pass.picked)]
                 ELSE SegmentLoop(retr, row_id, segments, settings, envs, i + 1,
                                  Append(segs, pass.seg), Append(trace, pass.picked))
         IN  Passed(SegmentPass(retr, row_id, i, segments[i + 1], settings,
                                envs[i + 1]))

\* dict.setdefault(key, default), as the dict it leaves behind
SetDefaultOverwrites(d, key, default) == (key :> default) @@ d

SetDefault(d, key, default) == IF key \in DOMAIN d THEN d ELSE (key :> default) @@ d

\* the nesting of one sentence result into the results structure
Nest(tree, key, row, sent_result) ==
    LET citing_id == row["TEI File"]
        citing_title == SplitDOI[citing_id][1]
        Appended(t1, cpapers) ==
            (key :> [t1[key] EXCEPT !.citing_papers =
                        (citing_title :>
                            [cpapers[citing_title] EXCEPT
                                !.sentences = Append(@, sent_result)]) @@ cpapers]) @@ t1
        PaperSet(t1) ==
            Appended(t1, SetDefault(t1[key].citing_papers, citing_title,
                                    [title |-> citing_title, id |-> citing_id,
                                     sentences |-> <<>>]))
    IN  PaperSet(SetDefault(tree, key, [title |-> "", id |-> key,
                                        doi |-> row["Cited DOI"],
                                        citing_papers |-> EmptyDict]))

\* the folder whose table CSV_PATH names when no data_dir is given
CSV_PATH == "fa"

\* r = retrievers.get(key) or retrievers.get("default"); found is `r is not None`
RetrieverForKeyOnly(registry, key) ==
    IF key \in DOMAIN registry THEN [found |-> TRUE, r |-> registry[key]]
    ELSE [found |-> FALSE]

RetrieverFor(registry, key) ==
    IF key \in DOMAIN registry THEN [found |-> TRUE, r |-> registry[key]]
    ELSE IF "default" \in DOMAIN registry
    THEN [found |-> TRUE, r |-> registry["default"]]
    ELSE [found |-> FALSE]

_process_sentence(row_id, segments, settings, envs, registry, tree) ==
    LET folder == IF settings.data_dir # None THEN settings.data_dir ELSE CSV_PATH
        fail(why) == [raised |-> TRUE, why |-> why, at |-> 0, tree |-> tree,
                      trace |-> <<>>]
        Looped(row, key, loop) ==
            IF loop.raised
            THEN [raised |-> TRUE, why |-> loop.why, at |-> loop.at, tree |-> tree,
                  trace |-> loop.trace]
            ELSE IF ~({"TEI File", "Cited DOI"} \subseteq DOMAIN row)
            THEN [raised |-> TRUE, why |-> "column", at |-> 0, tree |-> tree,
                  trace |-> loop.trace]
            ELSE [raised |-> FALSE, why |-> "", at |-> 0,
                  tree |-> Nest(tree, key, row,
                                [text |-> row["tei_sentence"],
                                 segments |-> loop.segments]),
                  trace |-> loop.trace]
        Got(row, key, got) ==
            IF ~got.found
            THEN fail("no retriever")
            ELSE IF "tei_sentence" \notin DOMAIN row THEN fail("column")
            ELSE Looped(row, key,
                        SegmentLoop(got.r, row_id, segments, settings, envs, 0,
                                    <<>>, <<>>))
        Keyed(row, key) == Got(row, key, RetrieverFor(registry, key))
        Read(row) ==
            IF ~({"Cited Author", "Cited Year"} \subseteq DOMAIN row)
            THEN fail("column")
            ELSE Keyed(row, _paper_key(row["Cited Author"], row["Cited Year"]))
    IN  IF ~HasCsv(folder) THEN fail("no csv")
        ELSE IF row_id + 1 > Len(FolderCsv(folder)) THEN fail("no row")
        ELSE Read(FolderCsv(folder)[row_id + 1])

(***************************************************************************)
(* Dormant values of the variables a specification does not use            *)
(***************************************************************************)
NoRetriever == NewRetriever(NoCap, 0, DefaultEmbedModel)
NoTable == [m \in Models |-> [t \in Texts |-> ZeroVec]]
NoCall == [op |-> "none"]
NoRequest == [folder |-> None, min_score |-> 0, failAt |-> 0]
Idle == [prebuild |-> "idle", req |-> NoRequest, prev |-> EmptyDict, row |-> "idle"]

(***************************************************************************)
(* SpecRetriever: one Retriever object, built and queried directly         *)
(***************************************************************************)
MaxCap == 2
Caps == {NoCap} \cup 0..MaxCap
MinScores == {20, 50}
Ks == 1..MaxK
QueryManyTexts == {<<>>, <<"t1">>, <<"t0", "t1">>}

InitRetriever ==
    /\ embedTab \in EmbedTables
    /\ \E cap \in Caps, ms \in MinScores, model \in Models :
           r = NewRetriever(cap, ms, model)
    /\ builtFrom = <<>>
    /\ faissFile = NoIndex
    /\ retrievers = EmptyDict
    /\ results = EmptyDict
    /\ output = EmptyDict
    /\ ret = NoCall
    /\ pc = Idle

\* r.build(chunks); every call site builds a Retriever it has just constructed
RBuild ==
    \E chunks \in ChunkLists, providerOk \in BOOLEAN :
        LET b == BuildResult(r, chunks, providerOk)
        IN  /\ ~r.index.present
            /\ r' = b.self
            /\ builtFrom' = IF b.raised THEN builtFrom ELSE chunks
            /\ faissFile' = IF b.raised THEN faissFile ELSE b.file
            /\ ret' = [op |-> "build", raised |-> b.raised, chunks |-> chunks,
                       embedded |-> b.embedded]
            /\ UNCHANGED <<pc, embedTab, retrievers, results, output>>

\* r.query(text, k)
RQuery ==
    \E text \in Texts, k \in Ks, providerOk \in BOOLEAN :
        LET q == QueryResult(r, text, k, providerOk)
        IN  /\ ret' = [op |-> "query", raised |-> q.raised, why |-> q.why,
                       text |-> text, k |-> k, value |-> q.value, vecs |-> q.vecs]
            /\ UNCHANGED <<pc, embedTab, r, builtFrom, faissFile, retrievers, results, output>>

\* r.query_many(texts, k)
RQueryMany ==
    \E texts \in QueryManyTexts, k \in Ks, providerOk \in BOOLEAN :
        LET q == QueryManyResult(r, texts, k, providerOk)
        IN  /\ ret' = [op |-> "query_many", raised |-> q.raised, why |-> q.why,
                       texts |-> texts, k |-> k, value |-> q.value, vecs |-> q.vecs]
            /\ UNCHANGED <<pc, embedTab, r, builtFrom, faissFile, retrievers, results, output>>

\* Retriever(index_path, ...): another object on the same index path, configured
\* as before (every rebuild constructs its Retriever anew)
RNew ==
    /\ r.index.present
    /\ r' = NewRetriever(r.max_sentences, r.min_score, r.embed_model)
    /\ builtFrom' = <<>>
    /\ ret' = [op |-> "new", raised |-> FALSE]
    /\ UNCHANGED <<pc, embedTab, faissFile, retrievers, results, output>>

\* r.load()
RLoad ==
    \E l \in {LoadResult(r, faissFile)} :
        /\ r' = l.self
        /\ ret' = [op |-> "load", raised |-> l.raised]
        /\ UNCHANGED <<pc, embedTab, builtFrom, faissFile, retrievers, results, output>>

NextRetriever == RBuild \/ RQuery \/ RQueryMany \/ RNew \/ RLoad

(***************************************************************************)
(* SpecReload: the Retriever of one paper key as main.prebuild_indexes     *)
(* sets it up on every run: a fresh object on the same index path, its     *)
(* index read back from the file when the file exists and built otherwise, *)
(* and the chunk list of this run attached (r.chunks = chunks).            *)
(***************************************************************************)
LoadOrBuild(chunks, providerOk) ==
    LET fresh == NewRetriever(r.max_sentences, r.min_score, r.embed_model)
        Done(raised, self, file) ==
            /\ r' = IF raised THEN r ELSE [self EXCEPT !.chunks = chunks]
            /\ faissFile' = IF raised THEN faissFile ELSE file
            /\ ret' = [op |-> "load_or_build", raised |-> raised,
                       loaded |-> faissFile.present, chunks |-> chunks]
        Built(b) == Done(b.raised, b.self, b.file)
        Loaded(l) == Done(l.raised, l.self, faissFile)
    IN  /\ IF faissFile.present THEN Loaded(LoadResult(fresh, faissFile))
           ELSE Built(BuildResult(fresh, chunks, providerOk))
        /\ UNCHANGED <<pc, embedTab, builtFrom, retrievers, results, output>>

RLoadOrBuild ==
    \E chunks \in ChunkLists, providerOk \in BOOLEAN : LoadOrBuild(chunks, providerOk)

NextReload == RLoadOrBuild \/ RQuery

SpecReload == InitRetriever /\ [][NextReload]_vars

SpecRetriever == InitRetriever /\ [][NextRetriever]_vars

(***************************************************************************)
(* SpecAssess: assess applied to bounded inputs and provider answers       *)
(***************************************************************************)
MaxPassages == 2

LblEntailment == <<"E", "N", "T", "A", "I", "L", "M", "E", "N", "T">>
LblContradiction == <<"c", "o", "n", "t", "r", "a", "d", "i", "c", "t", "i", "o", "n">>
LblNeutral == <<"n", "e", "u", "t", "r", "a", "l">>

Pred(label, score) == [label |-> label, score |-> score]

\* answers of the text-classification pipeline (return_all_scores): one entry per label
PredLists ==
    { <<Pred(LblContradiction, 10), Pred(LblEntailment, 80), Pred(LblNeutral, 10)>>,
      <<Pred(LblContradiction, 70), Pred(LblEntailment, 20), Pred(LblNeutral, 10)>>,
      <<Pred(LblContradiction, 20), Pred(LblEntailment, 20), Pred(LblNeutral, 60)>>,
      <<Pred(LblContradiction, 50), Pred(LblEntailment, 50), Pred(LblNeutral, 0)>> }

Classifiers == [Texts -> PredLists]

EvItem(quote, assessment) ==
    JDict([quote |-> quote, location |-> "s1", assessment |-> assessment,
           chunk_id |-> "s1", type |-> "sentence"])

EvidenceReply(text, items) == Json(text, JDict([evidence |-> JList(items)]))

\* answers of the completion service to the adjudication prompt
RawAdjudications ==
    { ProviderError,
      NonJson("prose"),
      Json("null", JNull),
      Json("[]", JList(<<>>)),
      Json("{note}", JDict([note |-> JStr("none")])),
      Json("{evidence: null}", JDict([evidence |-> JNull])),
      EvidenceReply("yes", <<EvItem("t0", "yes")>>),
      EvidenceReply("partial+no", <<EvItem("t0", "partial"), EvItem("t1", "no")>>),
      EvidenceReply("maybe", <<EvItem("t0", "maybe")>>) }

\* the local NLI models the frontend offers (ui.py: nli_choices)
nli_choices == {"cross-encoder/nli-deberta-v3-base"}

NliModels == _LOCAL_NLI_PATHS \cup {None, "alias-large"} \cup nli_choices


InitAssess ==
    /\ embedTab = NoTable
    /\ r = NoRetriever
    /\ builtFrom = <<>>
    /\ faissFile = NoIndex
    /\ retrievers = EmptyDict
    /\ results = EmptyDict
    /\ output = EmptyDict
    /\ ret = NoCall
    /\ pc = Idle

\* assess(...) with a local model name
AssessLocal ==
    \E claim \in Texts, chosen \in SeqsUpTo(ChunkPool, MaxPassages),
       nli_model \in _LOCAL_NLI_PATHS, classifier \in Classifiers :
        LET a == assess(claim, PassagesOf(chosen), MetadatasOf(chosen), nli_model,
                        classifier, ProviderError)
        IN  /\ ret' = [op |-> "assess", strategy |-> a.strategy, raised |-> a.raised,
                       value |-> a.value, claim |-> claim,
                       passages |-> PassagesOf(chosen), classifier |-> classifier,
                       raw |-> ProviderError, nli_model |-> nli_model]
            /\ UNCHANGED <<pc, embedTab, r, builtFrom, faissFile, retrievers, results, output>>

\* assess(...) with any other model name
AssessRemote ==
    \E claim \in Texts, chosen \in SeqsUpTo(ChunkPool, MaxPassages),
       nli_model \in NliModels \ _LOCAL_NLI_PATHS, raw \in RawAdjudications :
        LET a == assess(claim, PassagesOf(chosen), MetadatasOf(chosen), nli_model,
                        [t \in Texts |-> <<>>], raw)
        IN  /\ ret' = [op |-> "assess", strategy |-> a.strategy, raised |-> a.raised,
                       value |-> a.value, claim |-> claim,
                       passages |-> PassagesOf(chosen),
                       classifier |-> [t \in Texts |-> <<>>], raw |-> raw,
                       nli_model |-> nli_model]
            /\ UNCHANGED <<pc, embedTab, r, builtFrom, faissFile, retrievers, results, output>>

NextAssess == AssessLocal \/ AssessRemote

SpecAssess == InitAssess /\ [][NextAssess]_vars

\* C7: under the remote strategy, a completion that returns text that is not valid
\* JSON makes assess return an empty evidence list without raising.
C7_NonJsonGivesNoEvidence ==
    ret.op = "assess" /\ ret.strategy = "remote" /\ ~ret.raw.raised /\ ~ret.raw.valid =>
        ~ret.raised /\ ret.value = JList(<<>>)

\* a remote assess call whose completion was not JSON
C7_Witness ==
    /\ ret.op = "assess" /\ ret.strategy = "remote"
    /\ ~ret.raw.raised /\ ~ret.raw.valid
    /\ Len(ret.passages) > 0
    /\ ret.value = JList(<<>>)

\* the predictions of maximal score among a passage's predictions
TopPreds(preds) == {p \in Range(preds) : \A q \in Range(preds) : q.score <= p.score}

\* C9: under the local strategy each passage is judged on its own: a highest-scoring
\* label decides (entailment -> yes, contradiction -> no, anything else ->
\* circumstantial), so no assessment is "partial", and with the default confidence
\* floor there is exactly one EvidenceItem per passage, in passage order.
C9_LocalOnePerPassage ==
    ret.op = "assess" /\ ret.strategy = "local" =>
        /\ ~ret.raised
        /\ Len(ret.value.v) = Len(ret.passages)
        /\ \A p \in 1..Len(ret.passages) :
              LET item == ret.value.v[p].v
              IN  /\ item.quote = ret.passages[p]
                  /\ item.assessment \in {"yes", "no", "circumstantial"}
                  /\ \E best \in TopPreds(ret.classifier[ret.passages[p]]) :
                        /\ item.score = best.score
                        /\ best.label = LblEntailment => item.assessment = "yes"
                        /\ best.label = LblContradiction => item.assessment = "no"
                        /\ best.label = LblNeutral => item.assessment = "circumstantial"

\* a local assess call over two passages with different verdicts
C9_Witness ==
    /\ ret.op = "assess" /\ ret.strategy = "local"
    /\ Len(ret.passages) = 2
    /\ ret.value.v[1].v.assessment = "circumstantial"
    /\ ret.value.v[2].v.assessment = "no"

\* C16: assess given a model name that is meant as a local model but is not in
\* the registry of local models raises a configuration error, and no adjudication
\* call, local or remote, is made.
C16_UnknownLocalNameFails ==
    ret.op = "assess" /\ ret.nli_model \in nli_choices \ _LOCAL_NLI_PATHS =>
        ret.raised /\ ret.strategy \notin {"local", "remote"}

(***************************************************************************)
(* Spec: the server.  POST /prebuild rebuilds the registry of retrievers;  *)
(* the row worker _process_sentence adjudicates the segments of one row.   *)
(***************************************************************************)
MaxRows == 2        \* sentence results the tree may hold (SpecTree)
MaxRemoteRows == 1  \* sentence results the tree may hold (Spec)
MaxSegs == 2        \* segments of one row

DefaultMaxChunks == 256     \* PrebuildRequest.max_chunks
ServerTable == EmbedTable(1, 2, 1, 2)
LowMinScores == {20}
PrebuildMinScores == LowMinScores \cup {70}
PrebuildFailAt == {0, 2}

SegmentLists == {<<>>, <<"t0">>, <<"t1", "t0">>}
RowIds == 0..3
DataDirs == {None, "empty"}

JustDict == Json("{..}", JDict([best_id |-> JStr("0"), rationale |-> JStr("because")]))
AllEntail == [t \in Texts |-> <<Pred(LblEntailment, 90)>>]

\* what the providers answer during one call of the row worker
Scenarios ==
    { [nli_model |-> None, classifier |-> AllEntail, just |-> JustDict,
       raw |-> EvidenceReply("yes", <<EvItem("t0", "yes")>>)],
      [nli_model |-> None, classifier |-> AllEntail, just |-> JustDict,
       raw |-> EvidenceReply("maybe", <<EvItem("t0", "maybe")>>)],
      [nli_model |-> None, classifier |-> AllEntail, just |-> NonJson("prose"),
       raw |-> EvidenceReply("partial+no", <<EvItem("t0", "partial"), EvItem("t1", "no")>>)],
      [nli_model |-> None, classifier |-> AllEntail, just |-> JustDict,
       raw |-> NonJson("prose")],
      [nli_model |-> "deberta-base", classifier |-> AllEntail, just |-> JustDict,
       raw |-> ProviderError] }

\* the provider call that fails: none, or the embedding, adjudication or
\* justification call of segment `at`
NoFault == [kind |-> "none", at |-> 0]
Faults ==
    {NoFault, [kind |-> "embed", at |-> 1], [kind |-> "justification", at |-> 1]} \cup
    [kind : {"adjudication"}, at : 1..MaxSegs]

EnvOf(sc, fault, i) ==
    [embedOk |-> ~(fault.kind = "embed" /\ fault.at = i),
     classifier |-> sc.classifier,
     raw |-> IF fault.kind = "adjudication" /\ fault.at = i THEN ProviderError
             ELSE sc.raw,
     just |-> IF fault.kind = "justification" /\ fault.at = i THEN ProviderError
              ELSE sc.just]

\* the sentence results held by the tree, counted
NSentences(tree) ==
    LET PaperCount(paper) ==
            LET cps == paper.citing_papers
                RECURSIVE Count(_)
                Count(S) == IF S = {} THEN 0
                            ELSE LET t == CHOOSE t \in S : TRUE
                                 IN  Len(cps[t].sentences) + Count(S \ {t})
            IN  Count(DOMAIN cps)
        RECURSIVE Total(_)
        Total(S) == IF S = {} THEN 0
                    ELSE LET key == CHOOSE key \in S : TRUE
                         IN  PaperCount(tree[key]) + Total(S \ {key})
    IN  Total(DOMAIN tree)

Init ==
    /\ embedTab = ServerTable
    /\ r = NoRetriever
    /\ builtFrom = <<>>
    /\ faissFile = EmptyDict
    /\ retrievers = EmptyDict
    /\ results = EmptyDict
    /\ output = EmptyDict
    /\ ret = NoCall
    /\ pc = Idle

\* POST /prebuild: retrievers.clear(); retrievers.update(build_all(...))
PrebuildWith(folder, min_score, failAt) ==
    \E b \in {build_all([folder |-> folder, max_sentences |-> DefaultMaxChunks,
                         min_score |-> min_score, embed_model |-> DefaultEmbedModel],
                        failAt, faissFile)} :
        /\ retrievers' = IF b.raised THEN EmptyDict ELSE b.indexes
        /\ faissFile' = b.files
        /\ ret' = [op |-> "prebuild", raised |-> b.raised, folder |-> folder]
        /\ UNCHANGED <<pc, embedTab, r, builtFrom, results, output>>

Prebuild ==
    \E folder \in Folders, min_score \in PrebuildMinScores, failAt \in PrebuildFailAt :
        PrebuildWith(folder, min_score, failAt)

\* _process_sentence(row_id, segments, settings), the providers answering as sc
\* says, but for the call that fault names
ProcessRowWith(row_id, segments, data_dir, sc, fault, cap) ==
    LET settings == [nli_model |-> sc.nli_model, llm_model |-> None,
                     data_dir |-> data_dir]
        envs == [i \in 1..Len(segments) |-> EnvOf(sc, fault, i)]
    IN  /\ NSentences(results) < cap
        /\ fault.at <= Len(segments)
        /\ \E p \in {_process_sentence(row_id, segments, settings, envs,
                                       retrievers, results)} :
               /\ results' = p.tree
               /\ output' = IF p.raised THEN output ELSE p.tree
               /\ ret' = IF p.raised
                         THEN [op |-> "process", raised |-> TRUE, why |-> p.why,
                               at |-> p.at, data_dir |-> data_dir,
                               calls |-> Len(p.trace)]
                         ELSE [op |-> "process", raised |-> FALSE, why |-> "",
                               at |-> 0, data_dir |-> data_dir,
                               calls |-> Len(p.trace), row_id |-> row_id,
                               segments |-> segments, nli_model |-> sc.nli_model,
                               trace |-> p.trace]
        /\ UNCHANGED <<pc, embedTab, r, builtFrom, faissFile, retrievers>>

ProcessRow ==
    \E row_id \in RowIds, segments \in SegmentLists, data_dir \in DataDirs,
       sc \in Scenarios, fault \in Faults :
        ProcessRowWith(row_id, segments, data_dir, sc, fault, MaxRemoteRows)

Next == Prebuild \/ ProcessRow

Spec == Init /\ [][Next]_vars

(***************************************************************************)
(* SpecTree: the same server, the row worker running the local classifier  *)
(* only, so that longer sequences of rows stay within reach                *)
(***************************************************************************)
LocalScenario ==
    [nli_model |-> "deberta-base", classifier |-> AllEntail, just |-> JustDict,
     raw |-> ProviderError]

ProcessRowLocal ==
    \E row_id \in RowIds, segments \in SegmentLists,
       fault \in {NoFault, [kind |-> "embed", at |-> 1]} :
        ProcessRowWith(row_id, segments, None, LocalScenario, fault, MaxRows)

PrebuildAll ==
    \E folder \in Folders, min_score \in LowMinScores :
        PrebuildWith(folder, min_score, 0)

NextTree == PrebuildAll \/ ProcessRowLocal

SpecTree == Init /\ [][NextTree]_vars

(***************************************************************************)
(* SpecSchema: the same server, the folders including one whose citing     *)
(* table has no Cited DOI column                                           *)
(***************************************************************************)
SchemaFolders == {"fa", "fc"}

PrebuildSchema ==
    \E folder \in SchemaFolders, min_score \in LowMinScores :
        PrebuildWith(folder, min_score, 0)

ProcessRowSchema ==
    \E row_id \in RowIds, segments \in SegmentLists, data_dir \in {None, "fc"} :
        ProcessRowWith(row_id, segments, data_dir, LocalScenario, NoFault, MaxRows)

NextSchema == PrebuildSchema \/ ProcessRowSchema

SpecSchema == Init /\ [][NextSchema]_vars

\* the fields a citing table must have
RequiredColumns ==
    {"Cited Author", "Cited Year", "TEI File", "tei_sentence", "Cited DOI"}

\* C17: when a required column is absent from the citing table, index building
\* and row processing on that table fail, and they fail before any embedding,
\* retrieval, adjudication or justification call: a build registers nothing and
\* the row worker has queried no index.
C17_MissingColumnFailsFast ==
    /\ ret.op = "prebuild" /\ ~HasColumns(FolderCsv(ret.folder), RequiredColumns) =>
          ret.raised /\ retrievers = EmptyDict
    /\ ret.op = "process" /\ ret.data_dir # None
          /\ ~HasColumns(FolderCsv(ret.data_dir), RequiredColumns) =>
          ret.raised /\ ret.calls = 0

(***************************************************************************)
(* SpecLong: the same server, the row worker given one row of many         *)
(* segments                                                                *)
(***************************************************************************)
MaxIdSegs == 27     \* segments of the long row

LongSegments(n) == [i \in 1..n |-> "t0"]

ProcessRowLong ==
    \E row_id \in RowIds, n \in 0..MaxIdSegs :
        /\ results = EmptyDict
        /\ ProcessRowWith(row_id, LongSegments(n), None, LocalScenario, NoFault,
                          MaxRows)

NextLong == PrebuildAll \/ ProcessRowLong

SpecLong == Init /\ [][NextLong]_vars

(***************************************************************************)
(* SpecJust: the same server, one row processed per run, under every       *)
(* scenario of the providers and with the justification call failing or    *)
(* not                                                                     *)
(***************************************************************************)
ProcessRowJust ==
    \E row_id \in RowIds, segments \in SegmentLists, sc \in Scenarios,
       fault \in {NoFault, [kind |-> "justification", at |-> 1]} :
        /\ results = EmptyDict
        /\ ProcessRowWith(row_id, segments, None, sc, fault, MaxRows)

NextJust == Prebuild \/ ProcessRowJust

SpecJust == Init /\ [][NextJust]_vars

(***************************************************************************)
(* SpecSteps: the same server with the statements of the two handlers as   *)
(* separate steps, a row worker running while /prebuild rebuilds, and the  *)
(* process stopping at any step.  pc.prebuild and pc.row are the positions *)
(* of the two handlers.                                                    *)
(***************************************************************************)
\* output.json between open(..., "w") and the end of json.dump: a proper
\* prefix of the serialised tree, the empty file included
PartialFile == [partial |-> TRUE]

StepRowIds == 0..1
StepSegmentLists == {<<>>, <<"t0">>}

\* retrievers.clear()
PrebuildClear ==
    \E folder \in Folders, min_score \in LowMinScores, failAt \in PrebuildFailAt :
        /\ pc.prebuild = "idle"
        /\ pc' = [pc EXCEPT !.prebuild = "build", !.prev = retrievers,
                            !.req = [folder |-> folder, min_score |-> min_score,
                                     failAt |-> failAt]]
        /\ retrievers' = EmptyDict
        /\ ret' = [op |-> "prebuild", raised |-> FALSE, folder |-> folder]
        /\ UNCHANGED <<embedTab, r, builtFrom, faissFile, results, output>>

\* retrievers.update(build_all(...)); an exception leaves the handler before
\* update is called
PrebuildUpdate ==
    /\ pc.prebuild = "build"
    /\ \E b \in {build_all([folder |-> pc.req.folder, max_sentences |-> DefaultMaxChunks,
                            min_score |-> pc.req.min_score,
                            embed_model |-> DefaultEmbedModel],
                           pc.req.failAt, faissFile)} :
           /\ retrievers' = IF b.raised THEN retrievers ELSE b.indexes
           /\ faissFile' = b.files
           /\ ret' = [op |-> "prebuild", raised |-> b.raised, folder |-> pc.req.folder]
    /\ pc' = [pc EXCEPT !.prebuild = "idle", !.req = NoRequest, !.prev = EmptyDict]
    /\ UNCHANGED <<embedTab, r, builtFrom, results, output>>

\* _process_sentence up to and including the nesting of the sentence result
RowWork ==
    \E row_id \in StepRowIds, segments \in StepSegmentLists,
       fault \in {NoFault, [kind |-> "embed", at |-> 1]} :
        LET settings == [nli_model |-> LocalScenario.nli_model, llm_model |-> None,
                         data_dir |-> None]
            envs == [i \in 1..Len(segments) |-> EnvOf(LocalScenario, fault, i)]
        IN  /\ pc.row = "idle"
            /\ NSentences(results) < MaxRows
            /\ fault.at <= Len(segments)
            /\ \E p \in {_process_sentence(row_id, segments, settings, envs,
                                           retrievers, results)} :
                   /\ results' = p.tree
                   /\ pc' = [pc EXCEPT !.row = IF p.raised THEN "idle" ELSE "open"]
                   /\ ret' = [op |-> "process", raised |-> p.raised, why |-> p.why,
                              registry |-> DOMAIN retrievers]
            /\ UNCHANGED <<embedTab, r, builtFrom, faissFile, retrievers, output>>

\* open("output.json", "w") truncates the file
RowOpen ==
    /\ pc.row = "open"
    /\ output' = PartialFile
    /\ pc' = [pc EXCEPT !.row = "dump"]
    /\ UNCHANGED <<embedTab, r, builtFrom, faissFile, retrievers, results, ret>>

\* json.dump(results, fh, indent=2) and the close of the file
RowDump ==
    /\ pc.row = "dump"
    /\ output' = results
    /\ pc' = [pc EXCEPT !.row = "idle"]
    /\ UNCHANGED <<embedTab, r, builtFrom, faissFile, retrievers, results, ret>>

\* the process stops and is started again: the module globals are created
\* anew (results, retrievers = {}, {}), the files stay as they are
Crash ==
    /\ pc # Idle \/ results # EmptyDict
    /\ results' = EmptyDict
    /\ retrievers' = EmptyDict
    /\ pc' = Idle
    /\ ret' = [op |-> "crash", raised |-> FALSE]
    /\ UNCHANGED <<embedTab, r, builtFrom, faissFile, output>>

NextSteps == PrebuildClear \/ PrebuildUpdate \/ RowWork \/ RowOpen \/ RowDump \/ Crash

SpecSteps == Init /\ [][NextSteps]_vars

(***************************************************************************)
(* frontend/ui.py: seg_via_llm.  A completion's text is the sequence of    *)
(* its lines (text.splitlines()), each a sequence of characters.           *)
(***************************************************************************)
Whitespace == {" "}
Digits == {"0", "1", "2", "3", "4", "5", "6", "7", "8", "9"}
LowerLetters ==
    {"a", "b", "c", "d", "e", "f", "g", "h", "i", "j", "k", "l", "m", "n", "o", "p",
     "q", "r", "s", "t", "u", "v", "w", "x", "y", "z"}
IsLetter(c) == c \in LowerLetters \/ c \in DOMAIN UpperToLower
\* "-" and U+2022 BULLET, which is written "bullet" here
BulletChars == {"-", "bullet"}

RECURSIVE LStrip(_, _)
LStrip(str, chars) ==
    IF str # <<>> /\ Head(str) \in chars THEN LStrip(Tail(str), chars) ELSE str

RECURSIVE RStrip(_, _)
RStrip(str, chars) ==
    IF str # <<>> /\ str[Len(str)] \in chars
    THEN RStrip(SubSeq(str, 1, Len(str) - 1), chars) ELSE str

\* str.strip()
Strip(str) == RStrip(LStrip(str, Whitespace), Whitespace)

RECURSIVE LeadingDigits(_)
LeadingDigits(str) ==
    IF str # <<>> /\ Head(str) \in Digits THEN 1 + LeadingDigits(Tail(str)) ELSE 0

\* SEG_RE.match(ln): ^\s*\d+[a-z]\. ignoring case
SEG_RE(ln) ==
    LET t == LStrip(ln, Whitespace)
        n == LeadingDigits(t)
    IN  n >= 1 /\ Len(t) >= n + 2 /\ IsLetter(t[n + 1]) /\ t[n + 2] = "."

\* str(row_idx), for the one-digit rows of the model
RowStr(row_idx) == <<ToString(row_idx)>>

\* seg.split(maxsplit=1)[0]
RECURSIVE UntilSpace(_)
UntilSpace(str) ==
    IF str = <<>> \/ Head(str) \in Whitespace THEN <<>>
    ELSE <<Head(str)>> \o UntilSpace(Tail(str))

Label(seg) == UntilSpace(LStrip(seg, Whitespace))

\* the loop that stops at the first repeated label
RECURSIVE UniqueSegments(_, _, _, _)
UniqueSegments(segments, i, seen, acc) ==
    IF i > Len(segments) THEN acc
    ELSE IF Label(segments[i]) \in seen THEN acc
    ELSE UniqueSegments(segments, i + 1, seen \cup {Label(segments[i])},
                        Append(acc, segments[i]))

Sentinel ==
    <<"<", "M", "O", "D", "E", "L", " ", "R", "E", "T", "U", "R", "N", "E", "D", " ",
      "N", "O", " ", "S", "E", "G", "M", "E", "N", "T", "S", ">">>

ErrorWord == <<"e", "r", "r", "o", "r">>

ALIAS_TO_MODEL ==
    [m \in {"alias-large", "alias-llama3-huge", "alias-embeddings"} |-> m]
DEFAULT_ALIAS == "alias-large"

\* the loop of ui.py:153-161 over the candidate segments
DeduplicateNot(segments) == segments

Deduplicate(segments) == UniqueSegments(segments, 1, {}, <<>>)

\* the candidate segments parsed out of the lines of a completion
CandidateSegments(text, row_idx) ==
    LET lines == [i \in 1..Len(text) |-> Strip(text[i])]
        strict == SelectSeq(lines, SEG_RE)
        relaxed == SelectSeq(lines,
                       LAMBDA ln : Contains(RowStr(row_idx) \o <<"a">>, Lower(ln)))
        relaxedSegs == [i \in 1..Len(relaxed) |->
                           Strip(LStrip(relaxed[i], BulletChars \cup {" "}))]
        bullets == SelectSeq(lines,
                       LAMBDA ln : LET t == LStrip(ln, Whitespace)
                                   IN  t # <<>> /\ Head(t) \in BulletChars)
        bulletSegs == [i \in 1..Len(bullets) |->
                          RowStr(row_idx) \o <<Letters[i], " ">> \o
                          LStrip(bullets[i], BulletChars \cup Whitespace)]
    IN  IF strict # <<>> THEN strict
        ELSE IF relaxedSegs # <<>> THEN relaxedSegs
        ELSE IF bulletSegs # <<>> THEN bulletSegs
        ELSE << RowStr(row_idx) \o <<"a", " ">> \o Sentinel >>

\* the segments seg_via_llm returns for the lines of a completion
ParseSegments(text, row_idx) == Deduplicate(CandidateSegments(text, row_idx))

\* seg_via_llm(sentence, row_idx, model): first and second are what the completion
\* service answers to the call and to the fallback call, [raised, text]
seg_via_llm(row_idx, model, first, second) ==
    LET actual_model == IF first.raised THEN ALIAS_TO_MODEL[DEFAULT_ALIAS]
                        ELSE Get(ALIAS_TO_MODEL, model, model)
        text == IF ~first.raised THEN first.text
                ELSE IF ~second.raised THEN second.text
                ELSE <<>>
    IN  IF actual_model = DEFAULT_ALIAS /\
           \E i \in 1..Len(text) : Contains(ErrorWord, Lower(text[i]))
        THEN <<>>
        ELSE ParseSegments(text, row_idx)

(***************************************************************************)
(* SpecSeg: the segmenter called on its own                                *)
(***************************************************************************)
MaxLines == 2

Line0aDot == <<"0", "a", ".", " ", "x">>
Line0bDot == <<" ", "0", "b", ".", " ", "y">>
Line0a == <<"s", "e", "e", " ", "0", "A", " ", "x">>
LineBullet == <<"-", " ", "z">>
LineProse == <<"n", "o", "n", "e">>
LineError == <<"A", "n", " ", "E", "r", "r", "o", "r">>
LinePool == {Line0aDot, Line0bDot, Line0a, LineBullet, LineProse, LineError}

\* responses of three labelled lines, where a label can repeat
RepeatedLabelTexts == {<<a, b, c>> : a \in {Line0aDot, Line0bDot}, b \in {Line0aDot, Line0bDot}, c \in {Line0aDot, Line0bDot}}

SegTexts == SeqsUpTo(LinePool, MaxLines) \cup RepeatedLabelTexts
SegModels == {"alias-large", "alias-llama3-huge", "custom-model"}
SegRows == {0, 1}
Raised == [raised |-> TRUE, text |-> <<>>]
Returned(text) == [raised |-> FALSE, text |-> text]

\* the completion service answers the first call
SegAnswered ==
    \E row_idx \in SegRows, model \in SegModels, text \in SegTexts :
        /\ ret' = [op |-> "seg", row_idx |-> row_idx, model |-> model,
                   fallback |-> FALSE, failed |-> FALSE, text |-> text,
                   value |-> seg_via_llm(row_idx, model, Returned(text), Raised)]
        /\ UNCHANGED <<pc, embedTab, r, builtFrom, faissFile, retrievers, results, output>>

\* the first call raises and the fallback call answers or raises too
SegFallback ==
    \E row_idx \in SegRows, model \in SegModels,
       second \in {Raised} \cup {Returned(text) : text \in SegTexts} :
        /\ ret' = [op |-> "seg", row_idx |-> row_idx, model |-> model,
                   fallback |-> TRUE, failed |-> second.raised, text |-> second.text,
                   value |-> seg_via_llm(row_idx, model, Raised, second)]
        /\ UNCHANGED <<pc, embedTab, r, builtFrom, faissFile, retrievers, results, output>>

NextSeg == SegAnswered \/ SegFallback

SpecSeg == InitAssess /\ [][NextSeg]_vars

\* the response matches none of the three parse patterns
MatchesNoPattern(text, row_idx) ==
    \A i \in 1..Len(text) :
        LET ln == Strip(text[i])
        IN  /\ ~SEG_RE(ln)
            /\ ~Contains(RowStr(row_idx) \o <<"a">>, Lower(ln))
            /\ ~(ln # <<>> /\ Head(ln) \in BulletChars)

\* C3: seg_via_llm never returns an empty list, and a response matching none of
\* the three parse patterns gives exactly the sentinel claim labelled {row}a.
C3_SegmenterNeverEmpty ==
    ret.op = "seg" =>
        /\ ret.value # <<>>
        /\ MatchesNoPattern(ret.text, ret.row_idx) =>
               ret.value = << RowStr(ret.row_idx) \o <<"a", " ">> \o Sentinel >>

(***************************************************************************)
(* Claims about the row worker                                             *)
(***************************************************************************)
NonSentenceChunks(candidates) ==
    SelectSeq(candidates, LAMBDA c : Get(c.meta, "type", None) # "sentence")

\* the selection as the claim describes it: the sentence hits first, then the
\* best hits of any other type
SentenceFirst(candidates) ==
    LET sentence_chunks == SentenceChunks(candidates)
    IN  IF Len(sentence_chunks) >= N_KEEP
        THEN Head_(sentence_chunks, N_KEEP)
        ELSE sentence_chunks \o
             Head_(NonSentenceChunks(candidates), N_KEEP - Len(sentence_chunks))

RowDone == ret.op = "process" /\ ~ret.raised

\* C1: for every segment the row worker adjudicated, the passages sent to
\* adjudication are the 6 best sentence hits of query(claim, k=12) when there
\* are 6, and otherwise all the sentence hits followed by the best hits of other
\* types, up to 6 passages.
C1_SentenceFirstSelection ==
    RowDone =>
        \A i \in 1..Len(ret.trace) :
            ret.trace[i].chosen = SentenceFirst(ret.trace[i].candidates)

\* C2: a provider failure during the adjudication of a segment never makes the
\* row worker raise: the row is recorded and the call returns.
C2_AdjudicationFailureContained ==
    ~(ret.op = "process" /\ ret.raised /\ ret.why = "adjudication")

\* all the evidence items stored in a tree
StoredEvidence(tree) ==
    UNION { UNION { UNION { UNION { Range(snt.segments[g].quoted_evidence) :
                                        g \in 1..Len(snt.segments) } :
                                snt \in Range(tree[key].citing_papers[t].sentences) } :
                        t \in DOMAIN tree[key].citing_papers } :
                key \in DOMAIN tree }

Assessments == {"yes", "partial", "circumstantial", "no"}

\* C8: every evidence item stored in the result tree has an assessment among
\* yes, partial, circumstantial and no.
C8_StoredAssessmentsEnumerated ==
    \A ev \in StoredEvidence(results) :
        "assessment" \in DOMAIN ev /\ ev["assessment"] \in Assessments

IsPrefix(a, b) == Len(a) <= Len(b) /\ SubSeq(b, 1, Len(a)) = a

\* new keeps every node of old, with its title, id and doi, and every sentence
\* list of old is a prefix of the list new holds in the same place
TreeExtends(old, new) ==
    \A key \in DOMAIN old :
        /\ key \in DOMAIN new
        /\ new[key].title = old[key].title
        /\ new[key].id = old[key].id
        /\ new[key].doi = old[key].doi
        /\ \A t \in DOMAIN old[key].citing_papers :
               /\ t \in DOMAIN new[key].citing_papers
               /\ new[key].citing_papers[t].title = old[key].citing_papers[t].title
               /\ new[key].citing_papers[t].id = old[key].citing_papers[t].id
               /\ IsPrefix(old[key].citing_papers[t].sentences,
                           new[key].citing_papers[t].sentences)

\* the sentence result a successful call leaves last under the row's paper key
\* and citing title: the row's sentence, one segment per claim in emission order
AppendedLast(new, call) ==
    LET row == FolderCsv(CSV_PATH)[call.row_id + 1]
        key == _paper_key(row["Cited Author"], row["Cited Year"])
        t == SplitDOI[row["TEI File"]][1]
    IN  /\ key \in DOMAIN new
        /\ t \in DOMAIN new[key].citing_papers
        /\ LET sentences == new[key].citing_papers[t].sentences
               last == sentences[Len(sentences)]
           IN  /\ Len(sentences) >= 1
               /\ last.text = row["tei_sentence"]
               /\ Len(last.segments) = Len(call.segments)
               /\ \A g \in 1..Len(call.segments) :
                      /\ last.segments[g]["claim"] = call.segments[g]
                      /\ last.segments[g]["segment_id"] = SegmentId(call.row_id, g - 1)

\* C6: the result tree is append-only.  Every step keeps every node with its
\* title, id and doi and keeps every sentence list as a prefix of the new one; a
\* successful call of the row worker adds exactly one sentence result, last in
\* the list of its paper key and citing title, with its segments in emission
\* order; a call that raises adds nothing.
C6_TreeAppendOnly ==
    [][ /\ TreeExtends(results, results')
        /\ (ret'.op = "process" /\ ~ret'.raised) =>
               /\ NSentences(results') = NSentences(results) + 1
               /\ AppendedLast(results', ret')
        /\ ~(ret'.op = "process" /\ ~ret'.raised) => results' = results
      ]_vars

\* two rows recorded under one paper key and one citing title, the second from
\* another TEI file than the node's id names
C6_Witness ==
    /\ RowDone
    /\ \E key \in DOMAIN results :
           \E t \in DOMAIN results[key].citing_papers :
               /\ Len(results[key].citing_papers[t].sentences) = 2
               /\ results[key].citing_papers[t].id #
                      FolderCsv(CSV_PATH)[ret.row_id + 1]["TEI File"]
               /\ Len(ret.segments) = 2

(***************************************************************************)
(* Claims about the Retriever (checked under SpecRetriever)                *)
(***************************************************************************)
Max(S) == CHOOSE x \in S : \A y \in S : y <= x

\* the similarity of the best match for a query text: the largest inner product of
\* the query's embedding (utils.embed) with a row of the index
BestSimilarity(text) ==
    Max({InnerProduct(r.index.xb[i], embedTab[DefaultEmbedModel][text]) :
            i \in 1..Len(r.index.xb)})

Queryable == r.index.present /\ Len(r.chunks) > 0

ProviderAnswered == ~(ret.raised /\ ret.why = "provider")

\* C4: every hit returned by query / query_many has score >= min_score, and a query
\* whose best match has similarity strictly below min_score returns an empty list
\* and does not raise.
C4_MinScoreFloor ==
    /\ ret.op = "query" /\ ~ret.raised =>
          \A i \in 1..Len(ret.value) : ret.value[i].score >= r.min_score
    /\ ret.op = "query" /\ Queryable /\ ProviderAnswered
          /\ BestSimilarity(ret.text) < r.min_score =>
          ~ret.raised /\ ret.value = <<>>
    /\ ret.op = "query_many" /\ ~ret.raised =>
          \A j \in 1..Len(ret.value) : \A i \in 1..Len(ret.value[j]) :
              ret.value[j][i].score >= r.min_score
    /\ ret.op = "query_many" /\ Queryable /\ ProviderAnswered =>
          /\ ~ret.raised
          /\ Len(ret.value) = Len(ret.texts)
          /\ \A j \in 1..Len(ret.texts) :
                BestSimilarity(ret.texts[j]) < r.min_score => ret.value[j] = <<>>

\* a query on a built index whose best match is below min_score came back empty
C4_Witness ==
    /\ ret.op = "query" /\ Queryable /\ ProviderAnswered
    /\ Len(r.index.xb) > 1
    /\ BestSimilarity(ret.text) < r.min_score
    /\ ret.value = <<>>

TextsOf(chunks) == [i \in 1..Len(chunks) |-> chunks[i].text]

\* C5 as stated: for every cap N >= 0, build yields an index of exactly
\* min(N, len(chunks)) entries and retains and embeds exactly the first
\* min(N, len(chunks)) chunks.
C5_CapAsStated ==
    ret.op = "build" /\ ~ret.raised /\ r.max_sentences # NoCap =>
        LET n == Min(r.max_sentences, Len(ret.chunks))
        IN  /\ Len(r.index.xb) = n
            /\ r.chunks = SubSeq(ret.chunks, 1, n)
            /\ ret.embedded = TextsOf(SubSeq(ret.chunks, 1, n))

\* C5 amended: a build that completes with a cap N >= 1 indexes, retains and embeds
\* exactly the first min(N, len(chunks)) chunks, in order; with N = 0, as with no
\* cap at all, it indexes, retains and embeds every chunk.  The index file holds
\* the same rows.
C5_CapFromOne ==
    ret.op = "build" /\ ~ret.raised =>
        LET n == IF r.max_sentences = NoCap \/ r.max_sentences = 0
                 THEN Len(ret.chunks)
                 ELSE Min(r.max_sentences, Len(ret.chunks))
        IN  /\ r.index.present
            /\ Len(r.index.xb) = n
            /\ r.chunks = SubSeq(ret.chunks, 1, n)
            /\ ret.embedded = TextsOf(SubSeq(ret.chunks, 1, n))
            /\ faissFile = r.index

\* a build that cut the chunk list down to its cap
C5_Witness ==
    /\ ret.op = "build" /\ ~ret.raised
    /\ r.max_sentences >= 1
    /\ r.max_sentences < Len(ret.chunks)
    /\ Len(r.index.xb) = r.max_sentences

\* C11: query and query_many raise on a Retriever on which neither build nor load
\* has completed (its index is None), and never return from it; a completed build
\* leaves an index and chunks, and from then on neither raises for lack of a
\* built index.
C11_UnbuiltRaises ==
    /\ ret.op \in {"query", "query_many"} /\ ~r.index.present =>
          ret.raised /\ ret.why = "not built"
    /\ ret.op = "build" /\ ~ret.raised => Queryable /\ builtFrom = ret.chunks
    /\ builtFrom # <<>> => Queryable
    /\ ret.op \in {"query", "query_many"} /\ builtFrom # <<>> =>
          ~(ret.raised /\ ret.why = "not built")

\* a query raised on a fresh Retriever whose index file exists but was not loaded
C11_Witness ==
    /\ ret.op = "query" /\ ret.raised /\ ret.why = "not built"
    /\ ~r.index.present /\ faissFile.present

\* the chunk lists on which identity retrieval can hold of any index: position i is
\* indexed, the indexed texts have pairwise distinct non-zero embeddings under the
\* model the Retriever was built with, and a perfect match clears min_score
WellPosed(i) ==
    /\ i <= Len(r.chunks)
    /\ r.min_score <= 100
    /\ \A j \in 1..Len(r.chunks) : embedTab[r.embed_model][r.chunks[j].text] # ZeroVec
    /\ \A j, l \in 1..Len(r.chunks) :
          j # l => embedTab[r.embed_model][r.chunks[j].text] #
                   embedTab[r.embed_model][r.chunks[l].text]

\* C10: identity retrieval: for every chunk list C, every Retriever built from C and
\* every position i, query(C[i].text, k=1) returns C[i] (its text and meta) as the
\* top hit with score 1.  Stated here for the well-posed chunk lists only.
C10_IdentityRetrieval ==
    ret.op = "query" /\ ret.k = 1 /\ r.index.present /\ ProviderAnswered =>
        \A i \in 1..Len(builtFrom) :
            WellPosed(i) /\ builtFrom[i].text = ret.text =>
                /\ ~ret.raised
                /\ ret.value = << [score |-> 100, text |-> builtFrom[i].text,
                                   meta |-> builtFrom[i].meta] >>

(***************************************************************************)
(* Claims on the steps of the handlers (SpecSteps)                         *)
(***************************************************************************)
\* C12: while /prebuild rebuilds the registry, a row worker that reads the
\* registry finds the complete map the registry held before the rebuild (the new
\* map is installed only as the rebuild ends): never an empty or partial one.
C12_AtomicReplacement ==
    ret.op = "process" /\ pc.prebuild = "build" => ret.registry = DOMAIN pc.prev

\* C13: output.json is at every step a complete result tree that keeps every
\* sentence result it held before: no step, a stop of the process included,
\* leaves a partial file or a tree without a row that was persisted earlier.
C13_SnapshotComplete ==
    [][ /\ output' # PartialFile
        /\ output # PartialFile => TreeExtends(output, output') ]_vars

(***************************************************************************)
(* Claims on the registry of retrievers                                    *)
(***************************************************************************)
\* the chunks of the documents (TEI files) of a folder
DocumentChunks(folder) ==
    Range(Flatten([i \in 1..Len(FolderTei(folder)) |->
                       tei_to_chunks(FolderTei(folder)[i])]))

\* C14: after build_all on a folder, every (author, year) group of rows of the
\* citing table has one index registered under "{author}-{year}", and that index
\* holds chunks of the cited document: every chunk it returns is a chunk of a
\* document of the folder.
C14_PerPaperFromCitedDocument ==
    ret.op = "prebuild" /\ ~ret.raised =>
        \A i \in 1..Len(FolderCsv(ret.folder)) :
            LET row == FolderCsv(ret.folder)[i]
                key == _paper_key(row["Cited Author"], row["Cited Year"])
            IN  /\ key \in DOMAIN retrievers
                /\ Range(retrievers[key].chunks) \subseteq DocumentChunks(ret.folder)

\* C15: a row whose paper key has no index of its own is processed with the
\* "default" index; a call of the row worker fails for want of an index only when
\* neither is registered, it does fail then, and a call that fails so leaves the
\* result tree, output.json and the registry as they were.
C15_DefaultFallback ==
    [][ ret'.op = "process" =>
          /\ ret'.raised /\ ret'.why = "no retriever" =>
                "default" \notin DOMAIN retrievers
          /\ "default" \notin DOMAIN retrievers =>
                /\ ret'.raised
                /\ UNCHANGED <<results, output, retrievers>>
          /\ ~ret'.raised =>
                LET row == FolderCsv(CSV_PATH)[ret'.row_id + 1]
                    key == _paper_key(row["Cited Author"], row["Cited Year"])
                IN  key \notin DOMAIN retrievers =>
                        \A i \in 1..Len(ret'.trace) :
                            ret'.trace[i].candidates =
                                QueryResult(retrievers["default"], ret'.segments[i],
                                            K_FETCH, TRUE).value ]_vars

\* a row of paper key Smith-2010 processed with the registry built from a folder
\* whose table has no row of that key
C15_Witness ==
    /\ ret.op = "process" /\ ~ret.raised
    /\ Len(ret.segments) >= 1
    /\ _paper_key(FolderCsv(CSV_PATH)[ret.row_id + 1]["Cited Author"],
                  FolderCsv(CSV_PATH)[ret.row_id + 1]["Cited Year"])
           \notin DOMAIN retrievers
    /\ "default" \in DOMAIN retrievers

\* C18: the justification step never fails the processing of a row: whatever the
\* justification completion does (a JSON object, other text, a provider error or
\* timeout), no call of the row worker ends with the exception of that step.
C18_JustificationNeverFails ==
    ret.op = "process" /\ ret.raised => ret.why # "justification"

\* the embeddings of a chunk list under the model of the Retriever
EmbeddingsOf(chunks) ==
    [i \in 1..Len(chunks) |-> embedTab[r.embed_model][chunks[i].text]]

Alphabet ==
    << "a", "b", "c", "d", "e", "f", "g", "h", "i", "j", "k", "l", "m",
       "n", "o", "p", "q", "r", "s", "t", "u", "v", "w", "x", "y", "z" >>

\* the segments of the sentence result the last successful call appended
RecordedSegments ==
    LET row == FolderCsv(CSV_PATH)[ret.row_id + 1]
        key == _paper_key(row["Cited Author"], row["Cited Year"])
        sentences == results[key].citing_papers[SplitDOI[row["TEI File"]][1]].sentences
    IN  sentences[Len(sentences)].segments

\* row id r followed by a lowercase letter
LetterIds(row_id) == {ToString(row_id) \o Alphabet[k] : k \in 1..Len(Alphabet)}

\* C20 as stated: for every row id r and every list of claim segments, the i-th
\* segment result recorded by the row worker has segment_id r followed by the i-th
\* lowercase letter, the ids are pairwise distinct and follow the claims' order.
C20_LetterIds ==
    ret.op = "process" /\ ~ret.raised =>
        LET segs == RecordedSegments
        IN  /\ Len(segs) = Len(ret.segments)
            /\ \A i \in 1..Len(segs) :
                   /\ segs[i]["claim"] = ret.segments[i]
                   /\ i <= Len(Alphabet)
                   /\ segs[i]["segment_id"] = ToString(ret.row_id) \o Alphabet[i]
            /\ \A i, j \in 1..Len(segs) :
                   i # j => segs[i]["segment_id"] # segs[j]["segment_id"]

\* C20 amended: the i-th segment result has segment_id r followed by the i-th
\* lowercase letter for i <= 26; from the 27th segment on the id is r followed by
\* a character that is not a letter; the ids are pairwise distinct and follow the
\* claims' order, whatever the number of segments.
C20_LetterIdsUpTo26 ==
    ret.op = "process" /\ ~ret.raised =>
        LET segs == RecordedSegments
        IN  /\ Len(segs) = Len(ret.segments)
            /\ \A i \in 1..Len(segs) :
                   /\ segs[i]["claim"] = ret.segments[i]
                   /\ i <= Len(Alphabet) =>
                          segs[i]["segment_id"] = ToString(ret.row_id) \o Alphabet[i]
                   /\ i > Len(Alphabet) =>
                          segs[i]["segment_id"] \notin LetterIds(ret.row_id)
            /\ \A i, j \in 1..Len(segs) :
                   i # j => segs[i]["segment_id"] # segs[j]["segment_id"]

\* a row of 27 segments was recorded
C20_Witness ==
    /\ ret.op = "process" /\ ~ret.raised
    /\ Len(ret.segments) > Len(Alphabet)
    /\ Len(RecordedSegments) = Len(ret.segments)

(***************************************************************************)
(* Claims on the parser                                                    *)
(***************************************************************************)
\* the keys the meta of a chunk is to have
ChunkMetaKeys == {"type", "id", "p_id", "section_id", "section_type", "section_head"}

\* C21: every chunk returned by tei_to_chunks has a text and a meta whose keys
\* include type, id, p_id, section_id, section_type and section_head, with
\* meta.type = "sentence".  Checked of the chunks of the documents of a folder
\* that /prebuild has just parsed and indexed.
C21_ChunkStructure ==
    ret.op = "prebuild" /\ ~ret.raised =>
        \A c \in DocumentChunks(ret.folder) \cup Range(retrievers["default"].chunks) :
            /\ {"text", "meta"} \subseteq DOMAIN c
            /\ ChunkMetaKeys \subseteq DOMAIN c.meta
            /\ c.meta.type = "sentence"

(***************************************************************************)
(* Claims on the justification step                                        *)
(***************************************************************************)
\* some evidence item of the segment result has assessment yes or partial
HasSupport(seg) ==
    \E k \in 1..Len(seg["quoted_evidence"]) :
        seg["quoted_evidence"][k]["assessment"] \in {"yes", "partial"}

\* C22: for every segment recorded by a call of the row worker, the
\* justification completion was called if and only if one of the segment's
\* evidence items has assessment yes or partial; a segment for which it was not
\* called carries neither best_evidence_id nor llm_rationale, a segment for which
\* it was called carries both.
C22_JustificationOnlyWithSupport ==
    /\ ret.op = "process" /\ ~ret.raised =>
          LET segs == RecordedSegments
          IN  \A i \in 1..Len(segs) :
                  /\ ret.trace[i].justified <=> HasSupport(segs[i])
                  /\ ~HasSupport(segs[i]) =>
                         /\ "best_evidence_id" \notin DOMAIN segs[i]
                         /\ "llm_rationale" \notin DOMAIN segs[i]
                  /\ HasSupport(segs[i]) =>
                         {"best_evidence_id", "llm_rationale"} \subseteq DOMAIN segs[i]

\* a row of two segments, the first with supporting evidence and the second
\* without any
C22_Witness ==
    /\ ret.op = "process" /\ ~ret.raised
    /\ Len(RecordedSegments) = 2
    /\ HasSupport(RecordedSegments[1])
    /\ ~HasSupport(RecordedSegments[2])

(***************************************************************************)
(* Claims on the segmenter (SpecSeg)                                       *)
(***************************************************************************)
\* the line starts with the digits of the given row, a letter and a dot
MatchesRowPattern(ln, row_idx) ==
    LET t == LStrip(ln, Whitespace)
    IN  /\ SEG_RE(ln)
        /\ SubSeq(t, 1, LeadingDigits(t)) = RowStr(row_idx)

\* the candidate lines as the four parsers of the claim give them, the first
\* parser that yields a line winning
ParsersInOrder(text, row_idx) ==
    LET lines == [i \in 1..Len(text) |-> Strip(text[i])]
        p0 == SelectSeq(lines, LAMBDA ln : MatchesRowPattern(ln, row_idx))
        relaxed == SelectSeq(lines,
                       LAMBDA ln : Contains(RowStr(row_idx) \o <<"a">>, Lower(ln)))
        p1 == [i \in 1..Len(relaxed) |->
                  Strip(LStrip(relaxed[i], BulletChars \cup {" "}))]
        bullets == SelectSeq(lines, LAMBDA ln : ln # <<>> /\ Head(ln) \in BulletChars)
        p2 == [i \in 1..Len(bullets) |->
                  RowStr(row_idx) \o <<Alphabet[i], " ">> \o
                  LStrip(bullets[i], BulletChars \cup Whitespace)]
    IN  IF p0 # <<>> THEN p0
        ELSE IF p1 # <<>> THEN p1
        ELSE IF p2 # <<>> THEN p2
        ELSE << RowStr(row_idx) \o <<"a", " ">> \o Sentinel >>

\* no line of the text mentions "error"
NoErrorWord(text) ==
    \A i \in 1..Len(text) : ~Contains(ErrorWord, Lower(text[i]))

\* C23: seg_via_llm applies its parsers in a fixed order, the first that yields
\* a line winning: lines matching "{row}{letter}." for the given row, then lines
\* containing "{row}a", then bullet lines re-labelled {row}a, {row}b, ..., then
\* the sentinel claim.  Stated of the responses that do not mention "error".
C23_ParsersInOrder ==
    ret.op = "seg" /\ ~ret.failed /\ NoErrorWord(ret.text) =>
        ret.value = UniqueSegments(ParsersInOrder(ret.text, ret.row_idx), 1, {}, <<>>)

\* the labels of the first n segments are pairwise distinct
DistinctLabels(segments, n) ==
    \A i, j \in 1..n : i # j => Label(segments[i]) # Label(segments[j])

\* C24: the result of seg_via_llm never holds two claims with the same label,
\* and it is the longest prefix of the candidate lines whose labels are pairwise
\* distinct: consumption stops at the first line whose label was seen before.
C24_StopsAtRepeatedLabel ==
    ret.op = "seg" =>
        /\ DistinctLabels(ret.value, Len(ret.value))
        /\ ret.value # <<>> =>
              LET cands == CandidateSegments(ret.text, ret.row_idx)
                  n == Len(ret.value)
              IN  /\ n <= Len(cands)
                  /\ ret.value = SubSeq(cands, 1, n)
                  /\ n < Len(cands) => ~DistinctLabels(cands, n + 1)

\* a response of three lines whose second label repeats the first: the third
\* line, of a label not seen before, is not consumed
C24_Witness ==
    /\ ret.op = "seg" /\ Len(ret.value) = 1
    /\ LET cands == CandidateSegments(ret.text, ret.row_idx)
       IN  /\ Len(cands) = 3
           /\ Label(cands[2]) = Label(cands[1])
           /\ Label(cands[3]) # Label(cands[1])

(***************************************************************************)
(* SpecPair: two row workers running _process_sentence for different rows  *)
(* at the same time.  The code takes no lock: the statements of the two    *)
(* calls interleave.  pc[w] is the position of worker w and the buffer of  *)
(* its file object; output is output.json as a document followed by `tail` *)
(* left-over characters of an earlier, longer content.                     *)
(***************************************************************************)
PairWorkers == {1, 2}

PairIdle == [w \in PairWorkers |-> [at |-> "idle", raised |-> FALSE, buf |-> EmptyDict]]

\* output.json right after open(..., "w")
TruncatedFile == [written |-> FALSE, doc |-> EmptyDict, tail |-> 0]

\* the length of json.dumps(tree): a tree with more sentence results is longer
DumpSize(tree) == 1 + NSentences(tree)

FileSize(file) == IF file.written THEN DumpSize(file.doc) + file.tail ELSE 0

\* the file after a file object opened before writes its buffer at offset 0:
\* what the file held beyond the end of the buffer stays
WriteAtStart(file, buf) ==
    [written |-> TRUE, doc |-> buf,
     tail |-> IF FileSize(file) > DumpSize(buf) THEN FileSize(file) - DumpSize(buf) ELSE 0]

InitPair ==
    /\ embedTab = ServerTable
    /\ r = NoRetriever
    /\ builtFrom = <<>>
    /\ faissFile = EmptyDict
    /\ retrievers = EmptyDict
    /\ results = EmptyDict
    /\ output = TruncatedFile
    /\ ret = NoCall
    /\ pc = PairIdle

\* /prebuild, before the two row requests arrive
PairPrebuild ==
    /\ pc = PairIdle
    /\ \E folder \in {"fa", "fb"} : PrebuildWith(folder, 20, 0)

\* worker w: _process_sentence up to and including the nesting of the sentence
\* result; worker 1 has row 0 and worker 2 has row 1
PairWork(w) ==
    \E segments \in StepSegmentLists, fault \in {NoFault, [kind |-> "embed", at |-> 1]} :
        LET settings == [nli_model |-> LocalScenario.nli_model, llm_model |-> None,
                         data_dir |-> None]
            envs == [i \in 1..Len(segments) |-> EnvOf(LocalScenario, fault, i)]
        IN  /\ pc[w].at = "idle"
            /\ fault.at <= Len(segments)
            /\ \E p \in {_process_sentence(w - 1, segments, settings, envs,
                                           retrievers, results)} :
                   /\ results' = p.tree
                   /\ pc' = [pc EXCEPT ![w].at = IF p.raised THEN "done" ELSE "open",
                                       ![w].raised = p.raised]
                   /\ ret' = [op |-> "process", raised |-> p.raised, why |-> p.why,
                              worker |-> w]
            /\ UNCHANGED <<embedTab, r, builtFrom, faissFile, retrievers, output>>

\* worker w: open("output.json", "w") truncates the file
PairOpen(w) ==
    /\ pc[w].at = "open"
    /\ output' = TruncatedFile
    /\ pc' = [pc EXCEPT ![w].at = "dump"]
    /\ UNCHANGED <<embedTab, r, builtFrom, faissFile, retrievers, results, ret>>

\* worker w: json.dump(results, fh, indent=2) fills the buffer of fh
PairDump(w) ==
    /\ pc[w].at = "dump"
    /\ pc' = [pc EXCEPT ![w].at = "close", ![w].buf = results]
    /\ UNCHANGED <<embedTab, r, builtFrom, faissFile, retrievers, results, output, ret>>

\* worker w: the end of the with block flushes the buffer and closes fh
PairClose(w) ==
    /\ pc[w].at = "close"
    /\ output' = WriteAtStart(output, pc[w].buf)
    /\ pc' = [pc EXCEPT ![w].at = "done"]
    /\ UNCHANGED <<embedTab, r, builtFrom, faissFile, retrievers, results, ret>>

NextPair ==
    \/ PairPrebuild
    \/ \E w \in PairWorkers : PairWork(w)
    \/ \E w \in PairWorkers : PairOpen(w)
    \/ \E w \in PairWorkers : PairDump(w)
    \/ \E w \in PairWorkers : PairClose(w)

SpecPair == InitPair /\ [][NextPair]_vars

\* C25: whatever the interleaving of two process-row calls for different rows,
\* once both have completed the tree holds the sentence results of both rows and
\* output.json is a well-formed document equal to the tree in memory.
C25_SerializedMutations ==
    (\A w \in PairWorkers : pc[w].at = "done" /\ ~pc[w].raised) =>
        /\ NSentences(results) = 2
        /\ output.written /\ output.tail = 0
        /\ output.doc = results

C27_FailedPrebuildKeepsRegistry ==
    [][ ret'.op = "prebuild" /\ ret'.raised => retrievers' = retrievers ]_vars

\* the evidence item carries the id and the type of a chosen passage whose text
\* is the item's quote
AnnotatedFromQuotedPassage(ev, chosen) ==
    \E c \in Range(chosen) :
        /\ c.text = ev["quote"]
        /\ ev["source_id"] = Get(c.meta, "id", "")
        /\ ev["source_type"] = Get(c.meta, "type", "")

\* C28: the annotation step of the row worker never fails, and every evidence
\* item it records has as source_id and source_type the id and the type of the
\* candidate passage its quote assesses, under the local and the remote strategy
\* and whatever the number and order of the items the adjudicator returned.
C28_AnnotationMatchesPassage ==
    ret.op = "process" =>
        IF ret.raised THEN ret.why # "annotation"
        ELSE \A k \in 1..Len(ret.trace) :
                 \A ev \in Range(RecordedSegments[k].quoted_evidence) :
                     "quote" \in DOMAIN ev =>
                         AnnotatedFromQuotedPassage(ev, ret.trace[k].chosen)

(***************************************************************************)
(* SpecProgress: /prebuild on the folder of the long table, the row worker *)
(* on rows of it, and GET /progress/{row_id}                               *)
(***************************************************************************)
ProgressRows == {0, 1, LongTableRows - 1}

\* the segment results of every sentence of the tree
StoredSegments(tree) ==
    UNION { UNION { UNION { Range(snt.segments) :
                                snt \in Range(tree[key].citing_papers[t].sentences) } :
                        t \in DOMAIN tree[key].citing_papers } :
                key \in DOMAIN tree }

\* what follows a row id of one or two digits in a segment id of at most two
\* digits and a letter
IdTails ==
    {Letters[k] : k \in 1..Len(Letters)} \cup
    {ToString(d) \o Letters[k] : d \in 0..9, k \in 1..Len(Letters)}

\* str(seg.get("segment_id", "")).startswith(str_row_id)
StartsWith(segment_id, str_row_id) ==
    \E tail \in IdTails : segment_id = str_row_id \o tail

\* GET /progress/{row_id}
progress(row_id, tree) ==
    IF \E seg \in StoredSegments(tree) : StartsWith(seg.segment_id, ToString(row_id))
    THEN [row_id |-> row_id, status |-> "done"]
    ELSE [row_id |-> row_id, status |-> "pending"]

PrebuildLong == PrebuildWith("fl", 20, 0)

ProcessRowProgress ==
    \E row_id \in ProgressRows, segments \in SegmentLists :
        ProcessRowWith(row_id, segments, "fl", LocalScenario, NoFault, MaxRows)

Progress ==
    \E row_id \in ProgressRows :
        /\ ret' = [op |-> "progress", row_id |-> row_id,
                   status |-> progress(row_id, results).status]
        /\ UNCHANGED <<pc, embedTab, r, builtFrom, faissFile, retrievers, results, output>>

NextProgress == PrebuildLong \/ ProcessRowProgress \/ Progress

SpecProgress == Init /\ [][NextProgress]_vars

\* a segment result produced for row r is in the tree
RowHasSegment(row_id) ==
    \E seg \in StoredSegments(results), k \in 1..Len(Letters) :
        seg.segment_id = SegmentId(row_id, k - 1)

\* C29: GET /progress/{r} answers "done" exactly when a segment produced for row
\* r itself is in the result tree; processing another row never makes it "done".
C29_ProgressOfTheRowItself ==
    ret.op = "progress" => (ret.status = "done" <=> RowHasSegment(ret.row_id))

(***************************************************************************)
(* Claims on the embedding of queries (SpecRetriever)                      *)
(***************************************************************************)
\* the vectors the embedding model of the Retriever, the one its chunks were
\* embedded with at build time, gives the texts
BuildTimeVectors(texts) == [i \in 1..Len(texts) |-> embedTab[r.embed_model][texts[i]]]

\* C30: query and query_many embed the query texts with the embedding model (and
\* credentials) of the Retriever, the one build embedded the chunks with: the
\* query vectors come from the same embedding function as the index vectors.
C30_QueryEmbedsAsBuild ==
    /\ ret.op = "query" /\ ret.vecs # <<>> => ret.vecs = BuildTimeVectors(<<ret.text>>)
    /\ ret.op = "query_many" /\ ret.vecs # <<>> => ret.vecs = BuildTimeVectors(ret.texts)

====
